---------------------------- MODULE Spec2Model ----------------------------
(***************************************************************************)
(* A model of spalipy (src/spalipy/spalipy.py): detection-based image      *)
(* registration.  Catalogue coordinates are integers on a small grid and   *)
(* every derived real quantity (transform parameters, quad hashes, squared *)
(* distances) is an exact rational <<numerator, denominator>>.  A value    *)
(* that IEEE arithmetic makes non-finite (a division by zero and whatever  *)
(* is computed from it) is the single value NaN: for the non-negative      *)
(* pixel coordinates used here numpy yields nan in every such case, every  *)
(* comparison with it is false, and np.min propagates it.                  *)
(* Euclidean distances are only ever compared, so they are carried as      *)
(* squared distances and compared with the squared threshold.              *)
(***************************************************************************)
EXTENDS Integers, Sequences, FiniteSets, TLC

VARIABLES
    obj,    \* the Spalipy instance (a record of its attributes), or NoObj
    trace,  \* what the last call on the instance did (calls made, outcome)
    call    \* the last call of a function on given arguments, with its result

vars == <<obj, trace, call>>

---------------------------------------------------------------------------
(* Bounds of the model *)

\* largest x / y pixel coordinate of a point in the quad and transform runs
MaxCoord == 2
\* transform parameters a, b range over n/1 and n/2 with |n| <= MaxParam
MaxParam == 2
\* largest x / y coordinate of a point in the fitting runs
MaxFitCoord == 1
\* largest number of correspondences handed to calc_affine_transform
MaxFit == 3
\* largest number of rows of a raw catalogue handed to trim_cat
MaxRaw == 3
\* largest number of source rows (template rows: one more) in the match_dets runs
MaxMatch == 2

---------------------------------------------------------------------------
(* Exact arithmetic *)

Abs(i) == IF i < 0 THEN -i ELSE i

RECURSIVE GCD(_, _)
GCD(m, n) == IF n = 0 THEN m ELSE GCD(n, m % n)

NaN == <<0, 0>>

IsFinite(r) == r[2] # 0

\* the rational n/d in lowest terms with a positive denominator; x/0 is NaN
Frac(n, d) ==
    IF d = 0 THEN NaN
    ELSE LET g == GCD(Abs(n), Abs(d))
             s == IF d < 0 THEN -1 ELSE 1
         IN  <<(s * n) \div g, (s * d) \div g>>

R(i) == <<i, 1>>

RAdd(p, q) ==
    IF ~IsFinite(p) \/ ~IsFinite(q) THEN NaN
    ELSE LET g == GCD(p[2], q[2])
         IN  Frac(p[1] * (q[2] \div g) + q[1] * (p[2] \div g), p[2] * (q[2] \div g))

RNeg(p) == IF IsFinite(p) THEN <<-p[1], p[2]>> ELSE NaN

RSub(p, q) == RAdd(p, RNeg(q))

RMul(p, q) ==
    IF ~IsFinite(p) \/ ~IsFinite(q) THEN NaN
    ELSE LET g1 == GCD(Abs(p[1]), q[2])
             g2 == GCD(Abs(q[1]), p[2])
         IN  Frac((p[1] \div g1) * (q[1] \div g2), (p[2] \div g2) * (q[2] \div g1))

RDiv(p, q) ==
    IF ~IsFinite(p) \/ ~IsFinite(q) \/ q[1] = 0 THEN NaN
    ELSE RMul(p, Frac(q[2], q[1]))

\* a/b < c/d for b, d > 0, by comparing continued-fraction expansions
RECURSIVE FracLess(_, _, _, _)
FracLess(a, b, c, d) ==
    LET qa == a \div b
        qc == c \div d
        ra == a - qa * b
        rc == c - qc * d
    IN  IF qa # qc THEN qa < qc
        ELSE IF rc = 0 THEN FALSE
        ELSE IF ra = 0 THEN TRUE
        ELSE FracLess(d, rc, b, ra)

\* comparisons: false whenever an operand is NaN
RLt(p, q) == IsFinite(p) /\ IsFinite(q) /\ FracLess(p[1], p[2], q[1], q[2])
RLe(p, q) == IsFinite(p) /\ IsFinite(q) /\ ~FracLess(q[1], q[2], p[1], p[2])
RGt(p, q) == RLt(q, p)
RGe(p, q) == RLe(q, p)
\* == of two floats: nan is not equal to anything, itself included
REq(p, q) == IsFinite(p) /\ IsFinite(q) /\ p = q

RSq(p) == RMul(p, p)

RECURSIVE SumSeq(_)
SumSeq(s) == IF s = <<>> THEN 0 ELSE Head(s) + SumSeq(Tail(s))

RECURSIVE RSumSeq(_)
RSumSeq(s) == IF s = <<>> THEN R(0) ELSE RAdd(Head(s), RSumSeq(Tail(s)))

\* determinant of a square integer matrix (a sequence of rows)
RECURSIVE Det(_)
Det(M) ==
    IF Len(M) = 1 THEN M[1][1]
    ELSE LET n == Len(M)
             Minor(j) == [r \in 1..(n - 1) |->
                            [c \in 1..(n - 1) |-> M[r + 1][IF c < j THEN c ELSE c + 1]]]
         IN  SumSeq([j \in 1..n |->
                        IF M[1][j] = 0 THEN 0
                        ELSE (IF j % 2 = 1 THEN 1 ELSE -1) * M[1][j] * Det(Minor(j))])

\* squared Euclidean distance of two points with rational coordinates
RDist2(p, q) == RAdd(RSq(RSub(p[1], q[1])), RSq(RSub(p[2], q[2])))

\* squared Euclidean distance of two integer points
Dist2(p, q) == (p[1] - q[1]) * (p[1] - q[1]) + (p[2] - q[2]) * (p[2] - q[2])

RPoint(p) == <<R(p[1]), R(p[2])>>

\* F(v) with v evaluated once (a local variable of the code)
With(v, F(_)) == CHOOSE r \in {F(x) : x \in {v}} : TRUE

\* the result of a call that may raise: the exception, or the value returned
Raise(e) == [raised |-> e]
Return(v) == [raised |-> "none", value |-> v]

---------------------------------------------------------------------------
(* class AffineTransform: v = <<a, b, c, d>>,                              *)
(* [x', y'] = [[a -b], [b a]] * [x, y] + [c d]                             *)

AffineTransform(v) == [v |-> v]

\* the homogeneous 3x3 matrix built in inverse()
homo(t) ==
    << <<t.v[1], RNeg(t.v[2]), t.v[3]>>,
       <<t.v[2], t.v[1],       t.v[4]>>,
       <<R(0),   R(0),         R(1)>> >>

RDet2(a, b, c, d) == RSub(RMul(a, d), RMul(b, c))

\* determinant of a 3x3 rational matrix, expanded along the first row
RDet3(M) ==
    RAdd(RSub(RMul(M[1][1], RDet2(M[2][2], M[2][3], M[3][2], M[3][3])),
              RMul(M[1][2], RDet2(M[2][1], M[2][3], M[3][1], M[3][3]))),
         RMul(M[1][3], RDet2(M[2][1], M[2][2], M[3][1], M[3][2])))

\* linalg.inv of a 3x3 matrix: adjugate over determinant; raises LinAlgError
\* when the matrix is singular
linalg_inv(M) ==
    LET det == RDet3(M)
        Skip(k, i) == IF k < i THEN k ELSE k + 1
        Cof(i, j) ==
            LET m == RDet2(M[Skip(1, i)][Skip(1, j)], M[Skip(1, i)][Skip(2, j)],
                           M[Skip(2, i)][Skip(1, j)], M[Skip(2, i)][Skip(2, j)])
            IN  IF (i + j) % 2 = 0 THEN m ELSE RNeg(m)
    IN  IF det = R(0) THEN Raise("LinAlgError")
        ELSE Return([i \in 1..3 |-> [j \in 1..3 |-> RDiv(Cof(j, i), det)]])

\* inverse() reading the rotation term from inv[0,1] instead of inv[1,0]
inverse_upper(t) ==
    With(linalg_inv(homo(t)),
         LAMBDA inv :
            IF inv.raised # "none" THEN inv
            ELSE Return(AffineTransform(<<inv.value[1][1], inv.value[1][2],
                                          inv.value[1][3], inv.value[2][3]>>)))

\* AffineTransform.inverse: (inv[0,0], inv[1,0], inv[0,2], inv[1,2])
inverse(t) ==
    With(linalg_inv(homo(t)),
         LAMBDA inv :
            IF inv.raised # "none" THEN inv
            ELSE Return(AffineTransform(<<inv.value[1][1], inv.value[2][1],
                                          inv.value[1][3], inv.value[2][3]>>)))

\* AffineTransform.matrix_form: (matrix, offset)
matrix_form(t) ==
    [matrix |-> << <<t.v[1], RNeg(t.v[2])>>, <<t.v[2], t.v[1]>> >>,
     offset |-> <<t.v[3], t.v[4]>>]

\* AffineTransform.apply_transform on one point with rational coordinates
apply_transform(t, xy) ==
    << RAdd(RSub(RMul(t.v[1], xy[1]), RMul(t.v[2], xy[2])), t.v[3]),
       RAdd(RAdd(RMul(t.v[2], xy[1]), RMul(t.v[1], xy[2])), t.v[4]) >>

---------------------------------------------------------------------------
(* calc_affine_transform *)

\* the design matrix without the minus sign of its first rows
source_matrix_unsigned(source_coo) ==
    [k \in 1..(2 * Len(source_coo)) |->
        LET p == source_coo[(k + 1) \div 2]
        IN  IF k % 2 = 1 THEN <<p[1], p[2], 1, 0>> ELSE <<p[2], p[1], 0, 1>>]

\* the (2n x 4) design matrix: rows (x, -y, 1, 0) and (y, x, 0, 1) per point
source_matrix(source_coo) ==
    [k \in 1..(2 * Len(source_coo)) |->
        LET p == source_coo[(k + 1) \div 2]
        IN  IF k % 2 = 1 THEN <<p[1], -p[2], 1, 0>> ELSE <<p[2], p[1], 0, 1>>]

\* template_coo.ravel()
template_matrix(template_coo) ==
    [k \in 1..(2 * Len(template_coo)) |->
        template_coo[(k + 1) \div 2][IF k % 2 = 1 THEN 1 ELSE 2]]

\* the solution of the square integer system M v = rhs by Cramer's rule
Cramer(M, rhs) ==
    LET n == Len(M)
        det == Det(M)
        Repl(j) == [r \in 1..n |-> [c \in 1..n |-> IF c = j THEN rhs[r] ELSE M[r][c]]]
    IN  [j \in 1..n |-> Frac(Det(Repl(j)), det)]

\* linalg.solve: the exact solution; raises LinAlgError for a singular matrix
linalg_solve(M, rhs) ==
    IF Det(M) = 0 THEN Raise("LinAlgError") ELSE Return(Cramer(M, rhs))

\* linalg.lstsq(...)[0]: the least-squares solution.  With full column rank
\* it solves the normal equations; otherwise (every source point is the same
\* point p) it is the minimum-norm solution B^T m / (|p|^2 + 1), B the two
\* design rows of p and m the mean template point.
linalg_lstsq(A, rhs) ==
    LET rows == Len(A)
        AtA == [i \in 1..4 |-> [j \in 1..4 |->
                    SumSeq([k \in 1..rows |-> A[k][i] * A[k][j]])]]
        Atb == [i \in 1..4 |-> SumSeq([k \in 1..rows |-> A[k][i] * rhs[k]])]
        n  == rows \div 2
        r  == A[1][1] * A[1][1] + A[2][1] * A[2][1] + 1
        mX == SumSeq([k \in 1..n |-> rhs[2 * k - 1]])
        mY == SumSeq([k \in 1..n |-> rhs[2 * k]])
    IN  IF Det(AtA) # 0 THEN Return(Cramer(AtA, Atb))
        ELSE Return([j \in 1..4 |-> Frac(A[1][j] * mX + A[2][j] * mY, n * r)])

\* calc_affine_transform(source_coo, template_coo), both sequences of
\* integer points of the same length n >= 1
calc_affine_transform(source_coo, template_coo) ==
    With(IF Len(source_coo) = 2
         THEN linalg_solve(source_matrix(source_coo), template_matrix(template_coo))
         ELSE linalg_lstsq(source_matrix(source_coo), template_matrix(template_coo)),
         LAMBDA transform :
            IF transform.raised # "none" THEN transform
            ELSE Return(AffineTransform(transform.value)))

---------------------------------------------------------------------------
(* quad *)

\* distance.pdist of 4 points, as squared distances, in pdist's order
\* (0,1) (0,2) (0,3) (1,2) (1,3) (2,3)
pdist(combo) ==
    << Dist2(combo[1], combo[2]), Dist2(combo[1], combo[3]), Dist2(combo[1], combo[4]),
       Dist2(combo[2], combo[3]), Dist2(combo[2], combo[4]), Dist2(combo[3], combo[4]) >>

SeqMax(s) == CHOOSE m \in {s[i] : i \in DOMAIN s} : \A i \in DOMAIN s : s[i] <= m
SeqMin(s) == CHOOSE m \in {s[i] : i \in DOMAIN s} : \A i \in DOMAIN s : s[i] >= m

\* np.argmax: the first index of the maximum (1-based)
argmax(s) == CHOOSE i \in DOMAIN s : s[i] = SeqMax(s) /\ \A j \in 1..(i - 1) : s[j] < s[i]

\* the index orders of quad(), 1-based
orders ==
    << <<1, 2, 3, 4>>, <<1, 3, 2, 4>>, <<1, 4, 2, 3>>,
       <<2, 3, 1, 4>>, <<2, 4, 1, 3>>, <<3, 4, 1, 2>> >>

Reorder(combo, order) == [i \in 1..4 |-> combo[order[i]]]

\* the transform [[a -b], [b a]] + [c d] of quad() for the ordered points
\* c1, x and y the differences of its first two points; a is nan when x = 0
quad_transform(c1, x, y) ==
    With(Frac(x - y, x * x + y * y),
         LAMBDA b :
            With(RMul(RDiv(R(1), R(x)), RAdd(R(1), RMul(b, R(y)))),
                 LAMBDA a :
                    AffineTransform(<<a, b,
                        RSub(RMul(b, R(c1[1][2])), RMul(a, R(c1[1][1]))),
                        RNeg(RAdd(RMul(b, R(c1[1][1])), RMul(a, R(c1[1][2]))))>>)))

\* the symmetry breaking of quad() on the transformed points C and D
quad_hash(c1, C, D) ==
    LET xC == C[1]
        yC == C[2]
        xD == D[1]
        yD == D[2]
        one_minus(v) == RSub(R(1), v)
    IN  With(<<RGt(xC, xD), RGt(RAdd(xC, xD), R(1))>>,
             LAMBDA test :
                IF test[1]
                THEN IF test[2]
                     THEN [pts  |-> Reorder(c1, <<2, 1, 3, 4>>),
                           hash |-> <<one_minus(xC), one_minus(yC),
                                      one_minus(xD), one_minus(yD)>>]
                     ELSE [pts  |-> Reorder(c1, <<1, 2, 4, 3>>),
                           hash |-> <<xD, yD, xC, yC>>]
                ELSE IF test[2]
                     THEN [pts  |-> Reorder(c1, <<2, 1, 4, 3>>),
                           hash |-> <<one_minus(xD), one_minus(yD),
                                      one_minus(xC), one_minus(yC)>>]
                     ELSE [pts  |-> c1, hash |-> <<xC, yC, xD, yD>>])

\* quad(combo, dists): (combo[order, :], _hash) as [pts, hash]
quad(combo, dists) ==
    With(Reorder(combo, orders[argmax(dists)]),
         LAMBDA c1 :
            With(quad_transform(c1, c1[2][1] - c1[1][1], c1[2][2] - c1[1][2]),
                 LAMBDA t :
                    With(<<apply_transform(t, RPoint(c1[3])),
                           apply_transform(t, RPoint(c1[4]))>>,
                         LAMBDA CD : quad_hash(c1, CD[1], CD[2]))))

---------------------------------------------------------------------------
(* Catalogues: sequences of detections [x, y, flux, fwhm, flags]           *)

\* no instance, and no call on it yet
NoObj == [constructed |-> FALSE]
NoTrace == [op |-> "none"]

\* an optional argument: None, or a value
None == [none |-> TRUE]
Some(v) == [none |-> FALSE, value |-> v]

\* defaults of trim_cat's minfwhm and maxflag arguments
minfwhm_default == 2
maxflag_default == 7

Min(a, b) == IF a <= b THEN a ELSE b

\* get_det_coords: the (x, y) columns
get_det_coords(cat) == [i \in 1..Len(cat) |-> <<cat[i].x, cat[i].y>>]

\* the rows of cat at the indices of S, in the order of cat
RECURSIVE Rows(_, _, _)
Rows(cat, S, i) ==
    IF i > Len(cat) THEN <<>>
    ELSE (IF i \in S THEN <<cat[i]>> ELSE <<>>) \o Rows(cat, S, i + 1)

\* cat.sort(FLUX); cat.reverse(): the rows by descending flux.  The sort is
\* numpy's default (unstable) argsort, so rows of equal flux may come out in
\* any order: the set of the index orders it may produce.
RECURSIVE sort_reverse(_, _)
sort_reverse(cat, S) ==
    IF S = {} THEN {<<>>}
    ELSE UNION {{<<i>> \o rest : rest \in sort_reverse(cat, S \ {i})} :
                  i \in {k \in S : \A l \in S : cat[l].flux <= cat[k].flux}}

\* cKDTree.query_pairs(r) with the inclusive bound taken strictly
query_pairs_strict(coo, r) ==
    {pair \in (1..Len(coo)) \X (1..Len(coo)) :
        pair[1] < pair[2] /\ Dist2(coo[pair[1]], coo[pair[2]]) < r * r}

\* cKDTree(coo).query_pairs(r): the pairs i < j at a distance of at most r
query_pairs(coo, r) ==
    {pair \in (1..Len(coo)) \X (1..Len(coo)) :
        pair[1] < pair[2] /\ Dist2(coo[pair[1]], coo[pair[2]]) <= r * r}

\* trim_cat from the sorted catalogue on, with the cut to ndets taken before
\* the close pairs are looked for
trim_sorted_cut_first(self, cat, minsep) ==
    LET head == SubSeq(cat, 1, Min(self.ndets, Len(cat)))
        close_pairs == query_pairs(get_det_coords(head), minsep)
        to_remove == {pair[1] : pair \in close_pairs} \cup {pair[2] : pair \in close_pairs}
    IN  Rows(head, (1..Len(head)) \ to_remove, 1)

\* trim_cat from the sorted catalogue on: close pairs out, then cat[:ndets]
trim_sorted(self, cat, minsep) ==
    LET close_pairs == query_pairs(get_det_coords(cat), minsep)
        to_remove == {pair[1] : pair \in close_pairs} \cup {pair[2] : pair \in close_pairs}
        kept == Rows(cat, (1..Len(cat)) \ to_remove, 1)
    IN  SubSeq(kept, 1, Min(self.ndets, Len(kept)))

\* trim_cat with the default minsep taken as maxmatchdist, not twice it
trim_cat_minsep_maxmatchdist(self, cat, minfwhm, maxflag, minsep) ==
    LET sep == IF minsep.none THEN self.maxmatchdist ELSE minsep.value
        good == Rows(cat, {i \in 1..Len(cat) :
                             cat[i].fwhm >= minfwhm /\ cat[i].flags <= maxflag}, 1)
    IN  {trim_sorted(self, [k \in 1..Len(good) |-> good[order[k]]], sep) :
            order \in sort_reverse(good, 1..Len(good))}

\* trim_cat(cat, minfwhm, maxflag, minsep): the catalogues it may return,
\* one per order the sort may leave rows of equal flux in
trim_cat(self, cat, minfwhm, maxflag, minsep) ==
    LET sep == IF minsep.none THEN 2 * self.maxmatchdist ELSE minsep.value
        good == Rows(cat, {i \in 1..Len(cat) :
                             cat[i].fwhm >= minfwhm /\ cat[i].flags <= maxflag}, 1)
    IN  {trim_sorted(self, [k \in 1..Len(good) |-> good[order[k]]], sep) :
            order \in sort_reverse(good, 1..Len(good))}

---------------------------------------------------------------------------
(* match_dets *)

\* np.argsort of a row of distances (ties by index: a row that passes the
\* match test has its two smallest distances different)
RECURSIVE argsort(_, _)
argsort(row, S) ==
    IF S = {} THEN <<>>
    ELSE LET j == CHOOSE k \in S :
                     \A l \in S : RLt(row[k], row[l]) \/ (row[k] = row[l] /\ k <= l)
         IN  <<j>> \o argsort(row, S \ {j})

\* the indices i of 1..n with passed[i], ascending
RECURSIVE Where(_, _)
Where(passed, i) ==
    IF i > Len(passed) THEN <<>>
    ELSE (IF passed[i] THEN <<i>> ELSE <<>>) \o Where(passed, i + 1)

\* the match test with the second-nearest bound at maxmatchdist, not twice it
match_test_single(dists_sort, maxmatchdist) ==
    /\ RLe(dists_sort[1], R(maxmatchdist * maxmatchdist))
    /\ RGe(dists_sort[2], R(maxmatchdist * maxmatchdist))

\* (dists_sort[:, 0] <= maxmatchdist) & (dists_sort[:, 1] >= 2. * maxmatchdist)
\* for one row of sorted squared distances
match_test(dists_sort, maxmatchdist) ==
    /\ RLe(dists_sort[1], R(maxmatchdist * maxmatchdist))
    /\ RGe(dists_sort[2], R(4 * maxmatchdist * maxmatchdist))

\* dists_argsort[i, :] and passed[i] for the transformed source point xy
match_row(xy, template_coo, maxmatchdist) ==
    With([j \in 1..Len(template_coo) |-> RDist2(xy, RPoint(template_coo[j]))],
         LAMBDA dists :
            With(argsort(dists, DOMAIN dists),
                 LAMBDA dists_argsort :
                    [argsort |-> dists_argsort,
                     passed  |-> match_test([k \in DOMAIN dists |-> dists[dists_argsort[k]]],
                                            maxmatchdist)]))

\* match_dets(transform, maxmatchdist): (nmatched, source_matchdets,
\* template_matchdets); IndexError with fewer than 2 template detections
match_dets(self, transform, maxmatchdist) ==
    LET m == IF maxmatchdist.none THEN self.maxmatchdist ELSE maxmatchdist.value
        ns == Len(self.source_coo)
    IN  IF Len(self.template_coo) < 2 THEN Raise("IndexError")
        ELSE With([i \in 1..ns |->
                     match_row(apply_transform(transform, RPoint(self.source_coo[i])),
                               self.template_coo, m)],
                  LAMBDA rows :
                     With(Where([i \in 1..ns |-> rows[i].passed], 1),
                          LAMBDA idx :
                             Return([nmatched |-> Len(idx),
                                     source_matchdets |->
                                         [k \in 1..Len(idx) |-> self.source_cat[idx[k]]],
                                     template_matchdets |->
                                         [k \in 1..Len(idx) |->
                                            self.template_cat[rows[idx[k]].argsort[1]]]])))

---------------------------------------------------------------------------
(* class Spalipy.  A method is an operator from the instance (a record of  *)
(* its attributes) to the outcomes the call may have.  An outcome is the   *)
(* instance as the call leaves it, the exception that left the call (or    *)
(* "none") and the events of the call in order: the calls it made, the     *)
(* candidates it examined, the outcome it reported.                        *)

Outcome(self, raised, events) == [self |-> self, raised |-> raised, events |-> events]

Event(kind, info) == [kind |-> kind, info |-> info]

\* defaults of find_affine_transform's maxcands and minquaddist arguments
maxcands_default == 10
minquaddist_default == Frac(1, 200)

\* int(ndets * ntot) for a float ndets, ndets itself for an int
int_ndets(ndets, source_cat, template_cat) ==
    IF ndets.float
    THEN LET ntot == Min(Len(source_cat), Len(template_cat))
         IN  (ndets.val[1] * ntot) \div ndets.val[2]
    ELSE ndets.val

\* the attributes __init__ sets after the catalogues are trimmed
Instance(a, ndets, source_cat, template_cat) ==
    [constructed |-> TRUE,
     ndets |-> ndets, nquaddets |-> a.nquaddets, minquadsep |-> a.minquadsep,
     maxmatchdist |-> a.maxmatchdist, minnmatch |-> a.minnmatch,
     spline_order |-> a.spline_order, quiet |-> a.quiet,
     source_cat |-> source_cat, source_coo |-> get_det_coords(source_cat),
     template_cat |-> template_cat, template_coo |-> get_det_coords(template_cat),
     source_quadlist |-> <<>>, template_quadlist |-> <<>>,
     nmatch |-> 0, source_matchdets |-> None, template_matchdets |-> None,
     affine_transform |-> None, spline_transform |-> None,
     sbs_x |-> None, sbs_y |-> None,
     source_data_transform |-> None, final_transform |-> None]

\* __init__ with both catalogues trimmed before ndets is checked
init_trim_first(a) ==
    LET ndets == int_ndets(a.ndets, a.source_cat, a.template_cat)
        self0 == [ndets |-> ndets, maxmatchdist |-> a.maxmatchdist]
    IN  {IF ndets < a.minnmatch
         THEN Outcome(NoObj, "ValueError",
                      <<Event("trim_cat", "source"), Event("trim_cat", "template")>>)
         ELSE Outcome(Instance(a, ndets, sc, tc), "none",
                      <<Event("trim_cat", "source"), Event("trim_cat", "template")>>) :
            sc \in trim_cat(self0, a.source_cat, minfwhm_default, maxflag_default, None),
            tc \in trim_cat(self0, a.template_cat, minfwhm_default, maxflag_default, None)}

\* Spalipy.__init__ on the arguments a (catalogues as tables)
init(a) ==
    LET ndets == int_ndets(a.ndets, a.source_cat, a.template_cat)
        self0 == [ndets |-> ndets, maxmatchdist |-> a.maxmatchdist]
    IN  IF ndets < a.minnmatch
        THEN {Outcome(NoObj, "ValueError", <<>>)}
        ELSE {Outcome(Instance(a, ndets, sc, tc), "none",
                      <<Event("trim_cat", "source"), Event("trim_cat", "template")>>) :
                sc \in trim_cat(self0, a.source_cat, minfwhm_default, maxflag_default, None),
                tc \in trim_cat(self0, a.template_cat, minfwhm_default, maxflag_default, None)}

\* itertools.combinations(range(n), 4), 1-based, from the combination after
\* <<a, b, c, d>> on, in lexicographic order
RECURSIVE combinations(_, _)
combinations(n, after) ==
    LET later == {q \in (1..n) \X (1..n) \X (1..n) \X (1..n) :
                    /\ q[1] < q[2] /\ q[2] < q[3] /\ q[3] < q[4]
                    /\ \E k \in 1..4 : /\ \A l \in 1..(k - 1) : q[l] = after[l]
                                       /\ q[k] > after[k]}
    IN  IF later = {} THEN <<>>
        ELSE LET first == CHOOSE q \in later :
                             \A r \in later :
                                \/ q = r
                                \/ \E k \in 1..4 : /\ \A l \in 1..(k - 1) : q[l] = r[l]
                                                   /\ q[k] < r[k]
             IN  <<first>> \o combinations(n, first)

\* the loop of make_quadlist over the index combinations quad_idxs
RECURSIVE quads_of(_, _, _, _)
quads_of(coo, quad_idxs, minquadsep, i) ==
    IF i > Len(quad_idxs) THEN <<>>
    ELSE LET combo == [k \in 1..4 |-> coo[quad_idxs[i][k]]]
             dists == pdist(combo)
         IN  (IF SeqMin(dists) > minquadsep * minquadsep
              THEN <<quad(combo, dists)>> ELSE <<>>)
             \o quads_of(coo, quad_idxs, minquadsep, i + 1)

\* make_quadlist(image, nquaddets, minquadsep), image "source" or "template"
make_quadlist(self, image, nquaddets, minquadsep) ==
    LET coo == IF image = "source" THEN self.source_coo ELSE self.template_coo
        n   == IF nquaddets.none THEN self.nquaddets ELSE nquaddets.value
        sep == IF minquadsep.none THEN self.minquadsep ELSE minquadsep.value
    IN  With(quads_of(coo, combinations(Min(n, Len(coo)), <<0, 0, 0, 0>>), sep, 1),
             LAMBDA quadlist :
                Outcome(IF image = "source"
                        THEN [self EXCEPT !.source_quadlist = quadlist]
                        ELSE [self EXCEPT !.template_quadlist = quadlist],
                        "none", <<Event("call", "make_quadlist")>>))

\* squared distance of two hashes (one entry of distance.cdist, squared)
hash_dist2(h1, h2) == RSumSeq([i \in 1..4 |-> RSq(RSub(h1[i], h2[i]))])

\* np.min of a column: nan if any entry is nan
np_min(col) ==
    IF \E i \in DOMAIN col : ~IsFinite(col[i]) THEN NaN
    ELSE CHOOSE m \in {col[i] : i \in DOMAIN col} : \A i \in DOMAIN col : RLe(m, col[i])

\* np.argmin of a column: the first nan if there is one, else the first minimum
np_argmin(col) ==
    LET hit(i) == IF \E k \in DOMAIN col : ~IsFinite(col[k])
                  THEN ~IsFinite(col[i]) ELSE col[i] = np_min(col)
    IN  CHOOSE i \in DOMAIN col : hit(i) /\ \A k \in 1..(i - 1) : ~hit(k)

\* the indices np.argsort(mindist) may give next, those of rest left to come:
\* ascending, nan last, equal values in any order
next_best(mindist, rest) ==
    {k \in rest : IF IsFinite(mindist[k])
                  THEN \A l \in rest : ~RLt(mindist[l], mindist[k])
                  ELSE \A l \in rest : ~IsFinite(mindist[l])}

\* the loop of find_affine_transform from iteration i on, going on after a
\* candidate that passed the match test
RECURSIVE examine_no_break(_, _, _, _, _, _)
examine_no_break(self, p, mindist, rest, i, events) ==
    IF i >= Min(p.maxcands, Len(mindist))
    THEN {Outcome(self, "none", events \o <<Event("return", "done")>>)}
    ELSE UNION {
        LET seen == events \o <<Event("examine", [bi |-> bi, dist |-> mindist[bi]])>>
        IN  IF ~RLt(mindist[bi], p.minquaddist2)
            THEN examine_no_break(self, p, mindist, rest \ {bi}, i + 1, seen)
            ELSE
              With(calc_affine_transform(
                       SubSeq(self.source_quadlist[bi].pts, 1, 2),
                       SubSeq(self.template_quadlist[p.minddist_idx[bi]].pts, 1, 2)).value,
                   LAMBDA transform :
              With(match_dets(self, transform, Some(p.maxmatchdist)).value,
                   LAMBDA trial :
                IF trial.nmatched > p.minnmatch
                THEN With(calc_affine_transform(get_det_coords(trial.source_matchdets),
                                                get_det_coords(trial.template_matchdets)).value,
                          LAMBDA refined :
                     With(match_dets(self, refined, Some(p.maxmatchdist)).value,
                          LAMBDA final :
                        examine_no_break(
                            [self EXCEPT !.nmatch = final.nmatched,
                                         !.source_matchdets = Some(final.source_matchdets),
                                         !.template_matchdets = Some(final.template_matchdets),
                                         !.affine_transform = Some(refined)],
                            p, mindist, rest \ {bi}, i + 1,
                            seen \o <<Event("match_dets", [transform |-> transform,
                                                           nmatched |-> trial.nmatched]),
                                      Event("match_dets", [transform |-> refined,
                                                           nmatched |-> final.nmatched]),
                                      Event("adopt", refined)>>)))
                ELSE examine_no_break(self, p, mindist, rest \ {bi}, i + 1,
                             seen \o <<Event("match_dets", [transform |-> transform,
                                                            nmatched |-> trial.nmatched])>>)))
        : bi \in next_best(mindist, rest)}

\* the loop of find_affine_transform from iteration i on: rest are the
\* source quads not examined yet
RECURSIVE examine(_, _, _, _, _, _)
examine(self, p, mindist, rest, i, events) ==
    IF i >= Min(p.maxcands, Len(mindist))
    THEN {Outcome(self, "none", events \o <<Event("return", "insufficient")>>)}
    ELSE UNION {
        LET seen == events \o <<Event("examine", [bi |-> bi, dist |-> mindist[bi]])>>
        IN  IF ~RLt(mindist[bi], p.minquaddist2)
            THEN examine(self, p, mindist, rest \ {bi}, i + 1, seen)
            ELSE
              With(calc_affine_transform(
                       SubSeq(self.source_quadlist[bi].pts, 1, 2),
                       SubSeq(self.template_quadlist[p.minddist_idx[bi]].pts, 1, 2)).value,
                   LAMBDA transform :
              With(match_dets(self, transform, Some(p.maxmatchdist)).value,
                   LAMBDA trial :
                IF trial.nmatched > p.minnmatch
                THEN With(calc_affine_transform(get_det_coords(trial.source_matchdets),
                                                get_det_coords(trial.template_matchdets)).value,
                          LAMBDA refined :
                     With(match_dets(self, refined, Some(p.maxmatchdist)).value,
                          LAMBDA final :
                        {Outcome(
                            [self EXCEPT !.nmatch = final.nmatched,
                                         !.source_matchdets = Some(final.source_matchdets),
                                         !.template_matchdets = Some(final.template_matchdets),
                                         !.affine_transform = Some(refined)],
                            "none",
                            seen \o <<Event("match_dets", [transform |-> transform,
                                                           nmatched |-> trial.nmatched]),
                                      Event("match_dets", [transform |-> refined,
                                                           nmatched |-> final.nmatched]),
                                      Event("adopt", refined),
                                      Event("return", "adopted")>>)}))
                ELSE examine(self, p, mindist, rest \ {bi}, i + 1,
                             seen \o <<Event("match_dets", [transform |-> transform,
                                                            nmatched |-> trial.nmatched])>>)))
        : bi \in next_best(mindist, rest)}

\* find_affine_transform with the test of a trial taken as nmatch >= minnmatch
find_affine_transform_at_least(self, maxmatchdist, minnmatch, maxcands, minquaddist) ==
    LET p0 == [maxmatchdist |-> IF maxmatchdist.none THEN self.maxmatchdist
                                ELSE maxmatchdist.value,
               minnmatch |-> IF minnmatch.none THEN self.minnmatch ELSE minnmatch.value,
               maxcands |-> maxcands,
               minquaddist2 |-> RSq(minquaddist)]
        nt == Len(self.template_quadlist)
        ns == Len(self.source_quadlist)
    IN  IF nt = 0 \/ ns = 0
        THEN {Outcome(self, "ValueError", <<Event("call", "find_affine_transform")>>)}
        ELSE
          With([s \in 1..ns |-> [t \in 1..nt |->
                   hash_dist2(self.template_quadlist[t].hash, self.source_quadlist[s].hash)]],
               LAMBDA dists :
          With([s \in 1..ns |-> np_min(dists[s])],
               LAMBDA mindist :
             IF ~\E s \in 1..ns : RLt(mindist[s], p0.minquaddist2)
             THEN {Outcome(self, "none", <<Event("call", "find_affine_transform"),
                                            Event("return", "no_matching_quads")>>)}
             ELSE examine(self,
                          [maxmatchdist |-> p0.maxmatchdist, minnmatch |-> p0.minnmatch - 1,
                           maxcands |-> p0.maxcands, minquaddist2 |-> p0.minquaddist2,
                           minddist_idx |-> [s \in 1..ns |-> np_argmin(dists[s])]],
                          mindist, 1..ns, 0, <<Event("call", "find_affine_transform")>>)))

\* find_affine_transform(maxmatchdist, minnmatch, maxcands, minquaddist).
\* distance.cdist raises ValueError when a quad list is empty (np.array([])
\* is one-dimensional).  In the loop the two points a trial transform is
\* solved from differ and the template has the four detections of a quad,
\* so calc_affine_transform and match_dets return there.
find_affine_transform(self, maxmatchdist, minnmatch, maxcands, minquaddist) ==
    LET p0 == [maxmatchdist |-> IF maxmatchdist.none THEN self.maxmatchdist
                                ELSE maxmatchdist.value,
               minnmatch |-> IF minnmatch.none THEN self.minnmatch ELSE minnmatch.value,
               maxcands |-> maxcands,
               minquaddist2 |-> RSq(minquaddist)]
        nt == Len(self.template_quadlist)
        ns == Len(self.source_quadlist)
    IN  IF nt = 0 \/ ns = 0
        THEN {Outcome(self, "ValueError", <<Event("call", "find_affine_transform")>>)}
        ELSE
          With([s \in 1..ns |-> [t \in 1..nt |->
                   hash_dist2(self.template_quadlist[t].hash, self.source_quadlist[s].hash)]],
               LAMBDA dists :
          With([s \in 1..ns |-> np_min(dists[s])],
               LAMBDA mindist :
             IF ~\E s \in 1..ns : RLt(mindist[s], p0.minquaddist2)
             THEN {Outcome(self, "none", <<Event("call", "find_affine_transform"),
                                            Event("return", "no_matching_quads")>>)}
             ELSE examine(self,
                          [maxmatchdist |-> p0.maxmatchdist, minnmatch |-> p0.minnmatch,
                           maxcands |-> p0.maxcands, minquaddist2 |-> p0.minquaddist2,
                           minddist_idx |-> [s \in 1..ns |-> np_argmin(dists[s])]],
                          mindist, 1..ns, 0, <<Event("call", "find_affine_transform")>>)))

\* interpolate.SmoothBivariateSpline(x, y, z, kx, ky) when the fit succeeds
SmoothBivariateSpline(xy, z, k) == [x |-> xy, z |-> z, kx |-> k, ky |-> k]

\* find_spline_transform(spline_order).  Whether scipy fits a surface to the
\* matched detections is scipy's: each of the two fits may succeed or raise.
\* The closure spline_transform reads self.sbs_x and self.sbs_y when called.
find_spline_transform(self, spline_order) ==
    LET k == IF spline_order.none THEN self.spline_order ELSE spline_order.value
        called == <<Event("call", "find_spline_transform")>>
    IN  IF self.affine_transform.none
        THEN {Outcome(self, "AttributeError", called)}
        ELSE
          With([i \in 1..Len(self.source_matchdets.value) |->
                   apply_transform(self.affine_transform.value,
                                   RPoint(get_det_coords(self.source_matchdets.value)[i]))],
               LAMBDA source_coo :
          With(get_det_coords(self.template_matchdets.value),
               LAMBDA template_coo :
             LET sbs_x == SmoothBivariateSpline(template_coo,
                              [i \in DOMAIN template_coo |->
                                  RSub(R(template_coo[i][1]), source_coo[i][1])], k)
                 sbs_y == SmoothBivariateSpline(template_coo,
                              [i \in DOMAIN template_coo |->
                                  RSub(R(template_coo[i][2]), source_coo[i][2])], k)
             IN  {Outcome(self, "dfitpackError", called),
                  Outcome([self EXCEPT !.sbs_x = Some(sbs_x)], "dfitpackError", called),
                  Outcome([self EXCEPT !.sbs_x = Some(sbs_x), !.sbs_y = Some(sbs_y),
                                       !.spline_transform = Some("spline_transform")],
                          "none", called \o <<Event("fit", k)>>)}))

\* align(): source_data_transform is the source image resampled through the
\* inverse affine transform, or through final_transform when spline_transform
\* is set.  The image is told by the routine that resampled it and the
\* inverse affine transform it was given.
align(self) ==
    LET called == <<Event("call", "align")>>
    IN  IF self.affine_transform.none
        THEN Outcome(self, "none", called \o <<Event("return", "affine_transform is not defined")>>)
        ELSE
          With(inverse(self.affine_transform.value),
               LAMBDA inv :
                 IF ~self.spline_transform.none
                 THEN IF inv.raised # "none"
                      THEN Outcome([self EXCEPT !.final_transform = Some("final_transform")],
                                   inv.raised, called)
                      ELSE Outcome([self EXCEPT !.final_transform = Some("final_transform"),
                                                !.source_data_transform =
                                                    Some([by |-> "map_coordinates",
                                                          affine |-> inv.value])],
                                   "none", called \o <<Event("resample", "final_transform")>>)
                 ELSE IF inv.raised # "none" THEN Outcome(self, inv.raised, called)
                 ELSE Outcome([self EXCEPT !.source_data_transform =
                                  Some([by |-> "affine_transform",
                                        matrix_form |-> matrix_form(inv.value)])],
                              "none", called \o <<Event("resample", "affine_transform")>>))

\* the exception get_residuals(transform) raises, "none" if it returns: the
\* affine residuals and final_transform invert the affine transform
get_residuals(self, transform) == inverse(self.affine_transform.value).raised

\* main() from find_affine_transform on: o is the outcome of the two
\* make_quadlist calls, with the events of main so far
main_stages(o, quiet) ==
    UNION {
      IF o3.raised # "none" THEN {Outcome(o3.self, o3.raised, o.events \o o3.events)}
      ELSE IF o3.self.affine_transform.none
      THEN {Outcome(o3.self, "none", o.events \o o3.events
                        \o <<Event("return", "No initial affine transform found")>>)}
      ELSE IF ~quiet /\ get_residuals(o3.self, "affine") # "none"
      THEN {Outcome(o3.self, get_residuals(o3.self, "affine"), o.events \o o3.events)}
      ELSE UNION {
             IF o4.raised # "none"
             THEN {Outcome(o4.self, o4.raised, o.events \o o3.events \o o4.events)}
             ELSE {Outcome(o5.self, o5.raised,
                           o.events \o o3.events \o o4.events \o o5.events) :
                      o5 \in {align(o4.self)}}
             : o4 \in IF o3.self.spline_order > 0
                      THEN find_spline_transform(o3.self, None)
                      ELSE {Outcome(o3.self, "none", <<>>)}}
      : o3 \in find_affine_transform(o.self, None, None,
                                     maxcands_default, minquaddist_default)}

\* main(quiet).  The residuals printed after align() (get_residuals("final"))
\* change nothing and are left out.
main(self, quiet) ==
    With(make_quadlist(self, "source", None, None),
         LAMBDA o1 :
            With(make_quadlist(o1.self, "template", None, None),
                 LAMBDA o2 :
                    main_stages(Outcome(o2.self, "none",
                                        <<Event("call", "main")>> \o o1.events \o o2.events),
                                IF quiet.none THEN self.quiet ELSE quiet.value)))

---------------------------------------------------------------------------
(* The instance: construction, main() and the stages called directly.      *)
(* call is the call being made with its arguments and trace what it did,   *)
(* until the caller has the result and is free to make the next call.      *)

\* the detections of a catalogue at the positions pts, brightest first, and
\* below them the rows of faint, which trim_cat drops or cuts
Catalogue(pts, faint) ==
    [i \in 1..Len(pts) |->
        [x |-> pts[i][1], y |-> pts[i][2], flux |-> Len(pts) + 3 - i,
         fwhm |-> 2, flags |-> 0]] \o faint

\* a detection too narrow to be kept, and a faint one
Narrow == [x |-> 9, y |-> 9, flux |-> 2, fwhm |-> 1, flags |-> 0]
Faint == [x |-> 9, y |-> 5, flux |-> 1, fwhm |-> 3, flags |-> 0]

\* the fields of view, as the source and the template show them: shifted,
\* with two detections a pixel off, with three detections only in the
\* template, with the longest diagonal of a quad vertical in the template or
\* in the source, turned by a quarter, and with three detections a pixel off
\* such that the fit to the matched detections loses a match
Fields ==
    << [source   |-> << <<0, 0>>, <<6, 1>>, <<2, 5>>, <<5, 4>>, <<3, 2>> >>,
        template |-> << <<1, 0>>, <<7, 1>>, <<3, 5>>, <<6, 4>>, <<4, 2>> >>],
       [source   |-> << <<4, 3>>, <<6, 4>>, <<2, 0>>, <<0, 7>>, <<6, 1>> >>,
        template |-> << <<4, 3>>, <<6, 4>>, <<1, 0>>, <<0, 6>>, <<6, 1>> >>],
       [source   |-> << <<0, 0>>, <<6, 1>>, <<2, 5>>, <<5, 4>>, <<3, 2>> >>,
        template |-> << <<0, 0>>, <<6, 1>>, <<2, 5>> >>],
       [source   |-> << <<0, 0>>, <<6, 1>>, <<2, 5>>, <<5, 4>>, <<3, 2>> >>,
        template |-> << <<0, 0>>, <<0, 7>>, <<3, 2>>, <<2, 5>>, <<5, 4>> >>],
       [source   |-> << <<0, 0>>, <<0, 7>>, <<3, 2>>, <<2, 5>>, <<5, 4>> >>,
        template |-> << <<0, 0>>, <<6, 1>>, <<2, 5>>, <<5, 4>>, <<3, 2>> >>],
       [source   |-> << <<0, 0>>, <<6, 1>>, <<2, 5>>, <<5, 4>>, <<3, 2>> >>,
        template |-> << <<6, 0>>, <<5, 6>>, <<1, 2>>, <<2, 5>>, <<4, 3>> >>],
       [source   |-> << <<0, 3>>, <<5, 3>>, <<0, 6>>, <<3, 5>>, <<7, 7>> >>,
        template |-> << <<0, 3>>, <<5, 3>>, <<1, 6>>, <<2, 4>>, <<7, 6>> >>] >>

\* the values of ndets: ints, and the floats 0.8 and 0.5
NdetsVals == {[float |-> FALSE, val |-> 5], [float |-> FALSE, val |-> 3],
              [float |-> TRUE, val |-> Frac(4, 5)], [float |-> TRUE, val |-> Frac(1, 2)]}

MaxCands == 2

\* the values of find_affine_transform's (maxcands, minquaddist): the
\* defaults, and up to MaxCands candidates within half a unit of hash distance
CandidateArgs ==
    {<<maxcands_default, minquaddist_default>>} \cup
    {<<maxcands, Frac(1, 2)>> : maxcands \in 1..MaxCands}

Init ==
    /\ obj = NoObj
    /\ trace = NoTrace
    /\ \E k \in 1..Len(Fields), ndets \in NdetsVals, minnmatch \in 3..4,
          nquaddets \in 4..5, spline_order \in {0, 2}, faint \in {<<>>, <<Narrow, Faint>>} :
          call = [fn |-> "Spalipy",
                  args |-> [source_cat |-> Catalogue(Fields[k].source, faint),
                            template_cat |-> Catalogue(Fields[k].template, <<>>),
                            ndets |-> ndets, nquaddets |-> nquaddets, minquadsep |-> 2,
                            maxmatchdist |-> 1, minnmatch |-> minnmatch,
                            spline_order |-> spline_order, quiet |-> FALSE]]

\* what the call op did to the instance
Trace(op, o) ==
    [op |-> op, raised |-> o.raised, events |-> o.events]

\* Spalipy(source_cat, template_cat, ...)
Construct ==
    /\ call.fn = "Spalipy"
    /\ trace = NoTrace
    /\ \E o \in init(call.args) :
          /\ obj' = o.self
          /\ trace' = Trace("__init__", o)
    /\ UNCHANGED call

\* self.main()
Main ==
    /\ obj.constructed
    /\ trace = NoTrace
    /\ call' = [fn |-> "main", args |-> [quiet |-> None]]
    /\ \E o \in main(obj, None) :
          /\ obj' = o.self
          /\ trace' = Trace("main", o)

\* self.make_quadlist(image, nquaddets)
MakeQuadlist ==
    /\ obj.constructed
    /\ trace = NoTrace
    /\ \E image \in {"source", "template"}, nquaddets \in {None} :
          /\ call' = [fn |-> "make_quadlist",
                      args |-> [image |-> image, nquaddets |-> nquaddets,
                                minquadsep |-> None]]
          /\ \E o \in {make_quadlist(obj, image, nquaddets, None)} :
                /\ obj' = o.self
                /\ trace' = Trace("make_quadlist", o)

\* self.find_affine_transform(minnmatch=, maxcands=, minquaddist=)
FindAffineTransform ==
    /\ obj.constructed
    /\ trace = NoTrace
    /\ \E minnmatch \in {None, Some(2)}, cands \in CandidateArgs :
       LET maxcands == cands[1]
           minquaddist == cands[2]
       IN /\ call' = [fn |-> "find_affine_transform",
                      args |-> [maxmatchdist |-> None, minnmatch |-> minnmatch,
                                maxcands |-> maxcands, minquaddist |-> minquaddist]]
          /\ \E o \in find_affine_transform(obj, None, minnmatch, maxcands, minquaddist) :
                /\ obj' = o.self
                /\ trace' = Trace("find_affine_transform", o)

\* self.find_spline_transform(spline_order)
FindSplineTransform ==
    /\ obj.constructed
    /\ trace = NoTrace
    /\ \E spline_order \in {Some(2)} :
          /\ call' = [fn |-> "find_spline_transform", args |-> [spline_order |-> spline_order]]
          /\ \E o \in find_spline_transform(obj, spline_order) :
                /\ obj' = o.self
                /\ trace' = Trace("find_spline_transform", o)

\* self.align()
Align ==
    /\ obj.constructed
    /\ trace = NoTrace
    /\ call' = [fn |-> "align", args |-> <<>>]
    /\ \E o \in {align(obj)} :
          /\ obj' = o.self
          /\ trace' = Trace("align", o)

\* the call has returned or raised: the caller goes on
Returned ==
    /\ obj.constructed
    /\ trace # NoTrace
    /\ call' = [fn |-> "none"]
    /\ trace' = NoTrace
    /\ UNCHANGED obj

Next ==
    \/ Construct
    \/ Returned
    \/ Main
    \/ MakeQuadlist
    \/ FindAffineTransform
    \/ FindSplineTransform
    \/ Align

Spec == Init /\ [][Next]_vars

---------------------------------------------------------------------------
(* Properties of the instance *)

\* C1: the constructor raises ValueError exactly when ndets (a float ndets
\* first converted to int(ndets * min(len(source_cat), len(template_cat))))
\* is below minnmatch, and then before trim_cat has run on either catalogue
\* and with no instance, so no quad list, left behind.
C1_NdetsBelowMinnmatchRaises ==
    (trace # NoTrace /\ trace.op = "__init__") =>
        LET a == call.args
            ntot == Min(Len(a.source_cat), Len(a.template_cat))
            ndets == IF a.ndets.float
                     THEN (a.ndets.val[1] * ntot) \div a.ndets.val[2]
                     ELSE a.ndets.val
        IN  /\ (trace.raised = "ValueError") <=> (ndets < a.minnmatch)
            /\ (ndets < a.minnmatch) => (trace.events = <<>> /\ obj = NoObj)
            /\ (ndets >= a.minnmatch) => (trace.raised = "none" /\ obj.constructed)

\* a float ndets that converts to fewer detections than minnmatch has raised
C1_Witness ==
    /\ trace # NoTrace
    /\ trace.op = "__init__"
    /\ call.args.ndets.float
    /\ trace.raised = "ValueError"
    /\ trace.events = <<>>

\* the events of the call of fn in the trace: those after its call event, up
\* to the next call
EventsOf(fn) ==
    LET ev == trace.events
        start == CHOOSE i \in DOMAIN ev : ev[i].kind = "call" /\ ev[i].info = fn
        later == {i \in DOMAIN ev : i > start /\ ev[i].kind = "call"}
        stop == IF later = {} THEN Len(ev) + 1
                ELSE CHOOSE i \in later : \A k \in later : i <= k
    IN  SubSeq(ev, start + 1, stop - 1)

Called(fn) ==
    /\ trace # NoTrace
    /\ \E i \in DOMAIN trace.events :
          trace.events[i].kind = "call" /\ trace.events[i].info = fn

Happened(kind) == \E i \in DOMAIN trace.events : trace.events[i].kind = kind

\* the arguments find_affine_transform ran with: main() passes none
FatArgs ==
    IF trace.op = "main"
    THEN [minnmatch |-> obj.minnmatch, maxcands |-> maxcands_default,
          minquaddist |-> minquaddist_default]
    ELSE [minnmatch |-> IF call.args.minnmatch.none THEN obj.minnmatch
                        ELSE call.args.minnmatch.value,
          maxcands |-> call.args.maxcands, minquaddist |-> call.args.minquaddist]

\* the squared hash distance from each source quad to its nearest template quad
NearestDist ==
    [s \in 1..Len(obj.source_quadlist) |->
        np_min([t \in 1..Len(obj.template_quadlist) |->
                   hash_dist2(obj.template_quadlist[t].hash, obj.source_quadlist[s].hash)])]

\* the source quads strictly below minquaddist, given the nearest distances
Below(nearest) == {s \in DOMAIN nearest : RLt(nearest[s], RSq(FatArgs.minquaddist))}

\* source quad s ranks strictly before source quad r
Before(nearest, s, r) ==
    \/ RLt(nearest[s], nearest[r])
    \/ IsFinite(nearest[s]) /\ ~IsFinite(nearest[r])

Examined == SelectSeq(EventsOf("find_affine_transform"), LAMBDA e : e.kind = "examine")
MatchCalls == SelectSeq(EventsOf("find_affine_transform"), LAMBDA e : e.kind = "match_dets")

\* the examined candidates that were evaluated, by their place in Examined
Evaluated(nearest) ==
    Where([i \in 1..Len(Examined) |-> Examined[i].info.bi \in Below(nearest)], 1)

\* what find_affine_transform adopts from a trial transform
Bootstrapped(transform) ==
    LET trial == match_dets(obj, transform, Some(obj.maxmatchdist)).value
    IN  calc_affine_transform(get_det_coords(trial.source_matchdets),
                              get_det_coords(trial.template_matchdets)).value

CandidateOrder(nearest, ex, mc) ==
    LET ev == Evaluated(nearest)
        ns == Len(obj.source_quadlist)
        won == {k \in 1..Len(ev) : k <= Len(mc) /\ mc[k].info.nmatched > FatArgs.minnmatch}
    IN  /\ Len(ex) <= FatArgs.maxcands
        /\ \A i, j \in 1..Len(ex) :
              i < j => /\ ex[i].info.bi # ex[j].info.bi
                       /\ ~Before(nearest, ex[j].info.bi, ex[i].info.bi)
        /\ \A s \in 1..ns, i \in 1..Len(ex) :
              (\A j \in 1..Len(ex) : ex[j].info.bi # s) => ~Before(nearest, s, ex[i].info.bi)
        /\ Len(mc) = Len(ev) + (IF won = {} THEN 0 ELSE 1)
        /\ IF won = {}
           THEN /\ ~Happened("adopt")
                /\ Below(nearest) # {} => Len(ex) = Min(FatArgs.maxcands, ns)
           ELSE /\ won = {Len(ev)}
                /\ ev[Len(ev)] = Len(ex)
                /\ obj.affine_transform = Some(Bootstrapped(mc[Len(ev)].info.transform))
                /\ mc[Len(mc)].info.transform = obj.affine_transform.value

\* C6: find_affine_transform examines source quads in ascending order of
\* nearest-template hash distance, at most maxcands of them, and calls
\* match_dets only for those strictly below minquaddist; the first examined
\* candidate whose trial match count exceeds minnmatch ends the search, its
\* bootstrapped transform is adopted, and no later candidate is examined.
C6_CandidateOrder ==
    (Called("find_affine_transform")
        /\ obj.source_quadlist # <<>> /\ obj.template_quadlist # <<>>) =>
        With(NearestDist, LAMBDA nearest :
            With(Examined, LAMBDA ex :
                With(MatchCalls, LAMBDA mc : CandidateOrder(nearest, ex, mc))))

\* the first candidate evaluated did not match enough detections, a later one
\* did and was adopted, and a source quad was left unexamined
C6_Witness ==
    /\ Called("find_affine_transform")
    /\ Happened("adopt")
    /\ Len(MatchCalls) >= 3
    /\ MatchCalls[1].info.nmatched <= FatArgs.minnmatch
    /\ Len(Examined) < Len(obj.source_quadlist)

\* C7: when no source quad is strictly below minquaddist from its nearest
\* template quad, find_affine_transform reports that there are no matching
\* quads, calls match_dets for no candidate and adopts no transform; when
\* some source quad is below, at least one candidate is evaluated.
C7_NoMatchingQuads ==
    Called("find_affine_transform") =>
        IF Below(NearestDist) # {}
        THEN MatchCalls # <<>>
        ELSE EventsOf("find_affine_transform") = <<Event("return", "no_matching_quads")>>

\* C2: a run of main() resamples the source image only if find_affine_transform
\* adopted a transform in that run and, with spline_order > 0, the spline fit
\* of that run succeeded.
C2_ResampleOnlyAfterTransform ==
    (trace # NoTrace /\ trace.op = "main" /\ Happened("resample")) =>
        /\ Happened("adopt")
        /\ obj.spline_order > 0 => Happened("fit")

\* C8: a run of main() on an instance whose spline_order is 0 does not call
\* find_spline_transform, and align resamples through the affine transform.
C8_SplineOrderZero ==
    (trace # NoTrace /\ trace.op = "main" /\ obj.spline_order = 0) =>
        /\ ~Called("find_spline_transform")
        /\ \A i \in DOMAIN trace.events :
              trace.events[i].kind = "resample" => trace.events[i].info = "affine_transform"

---------------------------------------------------------------------------
(* The instance is not involved in the runs of the free functions *)

Grid == (0..MaxCoord) \X (0..MaxCoord)

\* the sequences over S of a length in lo..hi
SeqsOf(S, lo, hi) == UNION {[1..n -> S] : n \in lo..hi}

\* the permutations of 1..4
Perms4 == {p \in [1..4 -> 1..4] : {p[i] : i \in 1..4} = 1..4}

---------------------------------------------------------------------------
(* AffineTransform: apply_transform and inverse on one transform and point *)

ParamVals == {Frac(n, d) : n \in (-MaxParam)..MaxParam, d \in 1..2}
OffsetVals == {R(-1), R(0), Frac(1, 2)}

TransformInit ==
    /\ obj = NoObj
    /\ trace = NoTrace
    /\ \E a \in ParamVals, b \in ParamVals, c \in OffsetVals, d \in OffsetVals, p \in Grid :
          call = [fn |-> "AffineTransform", t |-> AffineTransform(<<a, b, c, d>>),
                  xy |-> RPoint(p)]

\* q = t.apply_transform(xy)
ApplyTransform ==
    /\ call.fn = "AffineTransform"
    /\ call' = [fn |-> "apply_transform", t |-> call.t, xy |-> call.xy,
                q |-> apply_transform(call.t, call.xy)]
    /\ UNCHANGED <<obj, trace>>

\* inv = t.inverse()
Inverse ==
    /\ call.fn = "apply_transform"
    /\ call' = [fn |-> "inverse", t |-> call.t, xy |-> call.xy, q |-> call.q,
                inv |-> inverse(call.t)]
    /\ UNCHANGED <<obj, trace>>

\* back = inv.apply_transform(q)
ApplyInverse ==
    /\ call.fn = "inverse"
    /\ call.inv.raised = "none"
    /\ call' = [fn |-> "apply_inverse", t |-> call.t, xy |-> call.xy, q |-> call.q,
                inv |-> call.inv, back |-> apply_transform(call.inv.value, call.q)]
    /\ UNCHANGED <<obj, trace>>

TransformNext == ApplyTransform \/ Inverse \/ ApplyInverse

SpecTransform == TransformInit /\ [][TransformNext]_vars

---------------------------------------------------------------------------
(* calc_affine_transform on noiseless correspondences *)

FitGrid == (0..MaxFitCoord) \X (0..1)

\* generating transforms with integer parameters, a^2 + b^2 > 0
FitTransforms ==
    {AffineTransform(<<R(a), R(b), R(cd[1]), R(cd[2])>>) :
        a \in -1..2, b \in -1..1, cd \in {<<0, 0>>, <<1, 2>>}}
    \ {AffineTransform(<<R(0), R(0), R(cd[1]), R(cd[2])>>) : cd \in {<<0, 0>>, <<1, 2>>}}

\* the integer point a rational point with unit denominators stands for
IntPoint(q) == <<q[1][1], q[2][1]>>

FitInit ==
    /\ obj = NoObj
    /\ trace = NoTrace
    /\ \E T \in FitTransforms, src \in SeqsOf(FitGrid, 2, MaxFit) :
          call = [fn |-> "correspondences", T |-> T, source_coo |-> src,
                  template_coo |-> [i \in 1..Len(src) |->
                                      IntPoint(apply_transform(T, RPoint(src[i])))]]

CalcAffineTransform ==
    /\ call.fn = "correspondences"
    /\ call' = [fn |-> "calc_affine_transform", T |-> call.T,
                source_coo |-> call.source_coo, template_coo |-> call.template_coo,
                result |-> calc_affine_transform(call.source_coo, call.template_coo)]
    /\ UNCHANGED <<obj, trace>>

FitNext == CalcAffineTransform

SpecFit == FitInit /\ [][FitNext]_vars

---------------------------------------------------------------------------
(* quad on the 4-detection combinations make_quadlist accepts *)

QuadSeps == {0, 1}

QuadInit ==
    /\ obj = NoObj
    /\ trace = NoTrace
    /\ \E combo \in [1..4 -> Grid], minquadsep \in QuadSeps :
          /\ \A i \in 1..4, j \in 1..4 : i # j => combo[i] # combo[j]
          /\ call = [fn |-> "combo", combo |-> combo, minquadsep |-> minquadsep]

\* the body of make_quadlist's loop for one combination
MakeQuad ==
    /\ call.fn = "combo"
    /\ LET dists == pdist(call.combo)
       IN  call' = IF SeqMin(dists) > call.minquadsep * call.minquadsep
                   THEN [fn |-> "quad", combo |-> call.combo,
                         minquadsep |-> call.minquadsep,
                         result |-> quad(call.combo, dists)]
                   ELSE [fn |-> "rejected", combo |-> call.combo,
                         minquadsep |-> call.minquadsep]
    /\ UNCHANGED <<obj, trace>>

QuadNext == MakeQuad

SpecQuad == QuadInit /\ [][QuadNext]_vars

---------------------------------------------------------------------------
(* trim_cat on raw catalogues *)

TrimPositions == << <<0, 0>>, <<0, 1>>, <<1, 1>>, <<0, 3>> >>
\* (fwhm, flags): kept by the defaults, fwhm too small, flags too large
TrimQualities == << <<2, 0>>, <<1, 0>>, <<3, 8>> >>

\* the k-th raw detection, k in 0..23: 4 positions x 2 fluxes x 3 qualities
TrimDet(k) ==
    [x     |-> TrimPositions[(k \div 6) + 1][1],
     y     |-> TrimPositions[(k \div 6) + 1][2],
     flux  |-> ((k \div 3) % 2) + 1,
     fwhm  |-> TrimQualities[(k % 3) + 1][1],
     flags |-> TrimQualities[(k % 3) + 1][2]]

\* Raw catalogues of up to MaxRaw rows.  The tie order of the sort being
\* unspecified, what trim_cat may return does not depend on the order of the
\* raw rows, and each multiset of rows is listed once.
RawCatalogues ==
    {[i \in 1..Len(ks) |-> TrimDet(ks[i])] :
        ks \in {q \in SeqsOf(0..23, 0, MaxRaw) : \A i \in 1..(Len(q) - 1) : q[i] <= q[i + 1]}}

TrimInit ==
    /\ obj = NoObj
    /\ trace = NoTrace
    /\ \E cat \in RawCatalogues, ndets \in 1..2 :
          call = [fn |-> "catalogue", self |-> [ndets |-> ndets, maxmatchdist |-> 1],
                  cat |-> cat]

TrimCat ==
    /\ call.fn = "catalogue"
    /\ \E minsep \in {None, Some(1)}, q \in {<<minfwhm_default, maxflag_default>>, <<1, 8>>} :
          \E result \in trim_cat(call.self, call.cat, q[1], q[2], minsep) :
              call' = [fn |-> "trim_cat", self |-> call.self, cat |-> call.cat,
                       minfwhm |-> q[1], maxflag |-> q[2], minsep |-> minsep,
                       result |-> result]
    /\ UNCHANGED <<obj, trace>>

TrimNext == TrimCat

SpecTrim == TrimInit /\ [][TrimNext]_vars

---------------------------------------------------------------------------
(* match_dets on a pair of catalogues, raw or as trim_cat leaves them *)

MatchPositions == << <<0, 0>>, <<1, 0>>, <<0, 2>>, <<3, 0>> >>

\* a catalogue of good detections at the given positions, brightest first
CatalogueAt(ks) ==
    [i \in 1..Len(ks) |->
        [x |-> MatchPositions[ks[i]][1], y |-> MatchPositions[ks[i]][2],
         flux |-> Len(ks) + 1 - i, fwhm |-> 2, flags |-> 0]]

\* catalogues of lo..hi rows (rows at the same position included)
MatchCatalogues(lo, hi) ==
    {CatalogueAt(ks) :
        ks \in {q \in SeqsOf(1..Len(MatchPositions), lo, hi) :
                  \A i \in 1..(Len(q) - 1) : q[i] <= q[i + 1]}}

\* identity, shift, quarter turn, half scale, double scale with a shift
MatchTransforms ==
    {AffineTransform(<<R(1), R(0), R(0), R(0)>>),
     AffineTransform(<<R(1), R(0), R(1), R(0)>>),
     AffineTransform(<<R(0), R(1), R(4), R(0)>>),
     AffineTransform(<<Frac(1, 2), R(0), R(0), R(0)>>),
     AffineTransform(<<R(2), R(0), R(-2), R(0)>>)}

WithCatalogues(self, source_cat, template_cat) ==
    [ndets |-> self.ndets, maxmatchdist |-> self.maxmatchdist,
     source_cat |-> source_cat, source_coo |-> get_det_coords(source_cat),
     template_cat |-> template_cat, template_coo |-> get_det_coords(template_cat)]

MatchInit ==
    /\ obj = NoObj
    /\ trace = NoTrace
    /\ \E source_cat \in MatchCatalogues(1, MaxMatch),
          template_cat \in MatchCatalogues(1, MaxMatch + 1),
          maxmatchdist \in 1..2 :
          call = [fn |-> "catalogues", trimmed |-> FALSE,
                  self |-> WithCatalogues([ndets |-> MaxMatch + 1,
                                           maxmatchdist |-> maxmatchdist],
                                          source_cat, template_cat)]

\* both catalogues through trim_cat with its default arguments, as __init__ does
TrimCatalogues ==
    /\ call.fn = "catalogues"
    /\ ~call.trimmed
    /\ \E source_cat \in trim_cat(call.self, call.self.source_cat,
                                  minfwhm_default, maxflag_default, None),
          template_cat \in trim_cat(call.self, call.self.template_cat,
                                    minfwhm_default, maxflag_default, None) :
          call' = [fn |-> "catalogues", trimmed |-> TRUE,
                   self |-> WithCatalogues(call.self, source_cat, template_cat)]
    /\ UNCHANGED <<obj, trace>>

MatchDets ==
    /\ call.fn = "catalogues"
    /\ \E transform \in MatchTransforms :
          call' = [fn |-> "match_dets", trimmed |-> call.trimmed, self |-> call.self,
                   transform |-> transform,
                   result |-> match_dets(call.self, transform, None)]
    /\ UNCHANGED <<obj, trace>>

MatchNext == TrimCatalogues \/ MatchDets

SpecMatch == MatchInit /\ [][MatchNext]_vars

---------------------------------------------------------------------------
(* Properties *)

RMatMul3(A, B) ==
    [i \in 1..3 |-> [j \in 1..3 |->
        RAdd(RAdd(RMul(A[i][1], B[1][j]), RMul(A[i][2], B[2][j])), RMul(A[i][3], B[3][j]))]]

Identity3 == [i \in 1..3 |-> [j \in 1..3 |-> IF i = j THEN R(1) ELSE R(0)]]

\* C9: for a transform with a^2 + b^2 > 0, inverse() succeeds, the transform
\* it returns is (as a matrix of the [[a,-b],[b,a]] + [c,d] form) the matrix
\* inverse of the original, and applying it to the image of a point gives
\* the point back.
C9_InverseRoundTrip ==
    /\ (call.fn = "inverse" /\ (call.t.v[1] # R(0) \/ call.t.v[2] # R(0))) =>
          /\ call.inv.raised = "none"
          /\ RMatMul3(homo(call.inv.value), homo(call.t)) = Identity3
    /\ call.fn = "apply_inverse" =>
          /\ (call.t.v[1] # R(0) \/ call.t.v[2] # R(0))
          /\ call.back = call.xy

\* a rotating, scaling, shifting transform taken there and back
C9_Witness ==
    /\ call.fn = "apply_inverse"
    /\ call.t.v[1] = Frac(1, 2)
    /\ call.t.v[2] = R(-2)
    /\ call.t.v[3] = R(-1)
    /\ call.xy = RPoint(<<1, 2>>)
    /\ call.q # call.xy
    /\ call.back = call.xy

\* C10 as stated: for every list of n >= 2 source points and their exact
\* images under T, calc_affine_transform returns the parameters of T.
C10_FitRecoversTransform ==
    call.fn = "calc_affine_transform" =>
        /\ call.result.raised = "none"
        /\ call.result.value = call.T

\* the source points are not all one and the same point
TwoDistinct(coo) == \E i \in DOMAIN coo, j \in DOMAIN coo : coo[i] # coo[j]

\* C10 amended: for every list of n >= 2 source points of which at least two
\* differ, and their exact images under T, calc_affine_transform returns the
\* parameters of T (n = 2 by the exact solve, n > 2 by least squares).
C10_FitRecoversTransformDistinct ==
    (call.fn = "calc_affine_transform" /\ TwoDistinct(call.source_coo)) =>
        /\ call.result.raised = "none"
        /\ call.result.value = call.T

\* a least-squares fit (n = 3, one point repeated) of a rotating transform
C10_Witness ==
    /\ call.fn = "calc_affine_transform"
    /\ Len(call.source_coo) = 3
    /\ call.source_coo[1] = call.source_coo[3]
    /\ TwoDistinct(call.source_coo)
    /\ call.T.v[2] = R(1)
    /\ call.T.v[1] = R(2)
    /\ call.result.value = call.T

\* two hashes are the same 4-tuple of numbers
SameHash(h1, h2) == \A i \in 1..4 : REq(h1[i], h2[i])

\* C5: quad returns the same hash for the 24 orderings of an accepted
\* combination of 4 points.
C5_HashOrderInvariant ==
    call.fn = "quad" =>
        \A p \in Perms4 :
            LET combo == Reorder(call.combo, p)
            IN  SameHash(quad(combo, pdist(combo)).hash, call.result.hash)

\* C3: the catalogue trim_cat returns has no two detections within minsep
\* of each other (a distance of exactly minsep included), is in descending
\* order of flux, and has at most ndets rows.
C3_TrimmedCatalogue ==
    call.fn = "trim_cat" =>
        LET cat == call.result
            sep == IF call.minsep.none THEN 2 * call.self.maxmatchdist
                   ELSE call.minsep.value
        IN  /\ \A i \in 1..Len(cat), j \in 1..Len(cat) :
                  i < j => /\ Dist2(<<cat[i].x, cat[i].y>>, <<cat[j].x, cat[j].y>>) > sep * sep
                           /\ cat[i].flux >= cat[j].flux
            /\ Len(cat) <= call.self.ndets

\* three good detections, two of them exactly minsep apart: both are
\* removed and the third is what is left
C3_Witness ==
    /\ call.fn = "trim_cat"
    /\ call.minsep = Some(1)
    /\ call.minfwhm = minfwhm_default
    /\ Len(call.cat) = 3
    /\ \A i \in 1..3 : call.cat[i].fwhm = 2
    /\ \E i \in 1..3, j \in 1..3 :
          /\ <<call.cat[i].x, call.cat[i].y>> = <<0, 0>>
          /\ <<call.cat[j].x, call.cat[j].y>> = <<0, 1>>
    /\ Len(call.result) = 1
    /\ <<call.result[1].x, call.result[1].y>> = <<0, 3>>

\* squared distance of source row i, mapped through the transform of the
\* call, to template row j
C4_Dist(i, j) ==
    RDist2(apply_transform(call.transform, RPoint(call.self.source_coo[i])),
           RPoint(call.self.template_coo[j]))

\* source row i has its nearest template row within maxmatchdist and its
\* second nearest at 2 * maxmatchdist or more (fewer than two rows nearer)
C4_Matched(i) ==
    LET m == call.self.maxmatchdist
        T == 1..Len(call.self.template_coo)
    IN  /\ \E j \in T : RLe(C4_Dist(i, j), R(m * m))
        /\ Cardinality({j \in T : RLt(C4_Dist(i, j), R(4 * m * m))}) <= 1

\* C4: match_dets returns as matched exactly the source rows that pass the
\* nearest / second-nearest test, their number as the count, and for each
\* of them, at the same index, a template row nearest to it.
C4_MatchDets ==
    (call.fn = "match_dets" /\ call.result.raised = "none") =>
        LET res == call.result.value
            S == 1..Len(call.self.source_coo)
            T == 1..Len(call.self.template_coo)
            idx == Where([i \in S |-> C4_Matched(i)], 1)
        IN  /\ res.nmatched = Cardinality({i \in S : C4_Matched(i)})
            /\ Len(res.source_matchdets) = res.nmatched
            /\ Len(res.template_matchdets) = res.nmatched
            /\ res.source_matchdets = [k \in 1..Len(idx) |-> call.self.source_cat[idx[k]]]
            /\ \A k \in 1..Len(res.template_matchdets) :
                  \E j \in T :
                      /\ call.self.template_cat[j] = res.template_matchdets[k]
                      /\ \A l \in T : RLe(C4_Dist(idx[k], j), C4_Dist(idx[k], l))

\* one source row matched, the other within maxmatchdist of a template row
\* but turned down because a second template row is nearer than twice that
C4_Witness ==
    /\ call.fn = "match_dets"
    /\ call.result.raised = "none"
    /\ Len(call.self.source_coo) = 2
    /\ call.result.value.nmatched = 1
    /\ call.transform.v[3] = R(1)
    /\ \E i \in 1..2 :
          /\ ~C4_Matched(i)
          /\ \E j \in 1..Len(call.self.template_coo) :
                RLe(C4_Dist(i, j), R(call.self.maxmatchdist * call.self.maxmatchdist))

\* the raw rows of the call that trim_cat lets through: fwhm and flags pass,
\* and no other row that passes is within minsep
C11_Survivors ==
    LET cat == call.cat
        sep == IF call.minsep.none THEN 2 * call.self.maxmatchdist
               ELSE call.minsep.value
        good == {i \in 1..Len(cat) :
                    cat[i].fwhm >= call.minfwhm /\ cat[i].flags <= call.maxflag}
    IN  {i \in good :
            \A j \in good \ {i} :
                Dist2(<<cat[i].x, cat[i].y>>, <<cat[j].x, cat[j].y>>) > sep * sep}

\* C11: trim_cat returns exactly the brightest ndets (or all, if fewer) of
\* the detections that pass the fwhm and flags cuts and have no other passing
\* detection within minsep, in descending order of flux; close pairs are
\* looked for among all passing detections, before the cut to ndets.
C11_TrimCatExact ==
    call.fn = "trim_cat" =>
        LET cat == call.cat
            res == call.result
            surv == C11_Survivors
        IN  /\ Len(res) = Min(call.self.ndets, Cardinality(surv))
            /\ \A k \in 1..(Len(res) - 1) : res[k].flux >= res[k + 1].flux
            /\ \E f \in [1..Len(res) -> surv] :
                  /\ \A k, l \in 1..Len(res) : k # l => f[k] # f[l]
                  /\ \A k \in 1..Len(res) : res[k] = cat[f[k]]
                  /\ \A i \in surv \ {f[k] : k \in 1..Len(res)} :
                        \A k \in 1..Len(res) : cat[i].flux <= res[k].flux

\* ndets is 1 and the brightest detection has a fainter neighbour at minsep,
\* which is beyond the cut: both are removed and the third detection is
\* what is returned
C11_Witness ==
    /\ call.fn = "trim_cat"
    /\ call.self.ndets = 1
    /\ call.minsep = Some(1)
    /\ Len(call.cat) = 3
    /\ \A i \in 1..3 : call.cat[i].fwhm = 2
    /\ \E i \in 1..3, j \in 1..3 :
          /\ <<call.cat[i].x, call.cat[i].y>> = <<0, 0>> /\ call.cat[i].flux = 2
          /\ <<call.cat[j].x, call.cat[j].y>> = <<0, 1>> /\ call.cat[j].flux = 1
    /\ Len(call.result) = 1
    /\ <<call.result[1].x, call.result[1].y>> = <<0, 3>>
    /\ call.result[1].flux = 1

\* the combination of the call in the order quad() takes it in: the two
\* detections farthest apart, A and B, first
C12_Ordered == Reorder(call.combo, orders[argmax(pdist(call.combo))])

\* the transform quad() computes for the combination of the call
C12_Transform ==
    quad_transform(C12_Ordered, C12_Ordered[2][1] - C12_Ordered[1][1],
                   C12_Ordered[2][2] - C12_Ordered[1][2])

\* C12: for every quad, its long-diagonal detections A and B on the same x
\* or the same y included, the parameters (a, b, c, d) quad() computes are
\* numbers, and the transform they make takes A to (0, 0) and B to (1, 1).
C12_ClosedFormTransform ==
    call.fn = "quad" =>
        With(C12_Ordered, LAMBDA c1 :
            With(C12_Transform, LAMBDA t :
                /\ \A i \in 1..4 : IsFinite(t.v[i])
                /\ apply_transform(t, RPoint(c1[1])) = <<R(0), R(0)>>
                /\ apply_transform(t, RPoint(c1[2])) = <<R(1), R(1)>>))

\* the similarity transform that takes the point A to (0, 0) and the point B,
\* different from A, to (1, 1)
C13_Similarity(A, B) ==
    LET x == B[1] - A[1]
        y == B[2] - A[2]
        a == Frac(x + y, x * x + y * y)
        b == Frac(x - y, x * x + y * y)
    IN  AffineTransform(<<a, b,
                          RSub(RMul(b, R(A[2])), RMul(a, R(A[1]))),
                          RNeg(RAdd(RMul(b, R(A[1])), RMul(a, R(A[2]))))>>)

\* C13: the hash (xC, yC, xD, yD) quad() returns has xC <= xD and
\* xC + xD <= 1, and the similarity transform taking the first returned
\* point to (0, 0) and the second to (1, 1) takes the third to (xC, yC) and
\* the fourth to (xD, yD).
C13_CanonicalHash ==
    call.fn = "quad" =>
        With(call.result, LAMBDA r :
            With(C13_Similarity(r.pts[1], r.pts[2]), LAMBDA t :
                /\ RLe(r.hash[1], r.hash[3])
                /\ RLe(RAdd(r.hash[1], r.hash[3]), R(1))
                /\ apply_transform(t, RPoint(r.pts[3])) = <<r.hash[1], r.hash[2]>>
                /\ apply_transform(t, RPoint(r.pts[4])) = <<r.hash[3], r.hash[4]>>))

\* C14 as claimed: whenever find_affine_transform adopts a transform, the
\* match count stored in self.nmatch, that of the refined transform, is
\* strictly greater than minnmatch.
C14_AdoptedCountAboveMinnmatch ==
    (Called("find_affine_transform") /\ Happened("adopt")) =>
        obj.nmatch > FatArgs.minnmatch

\* C14 as amended: whenever find_affine_transform adopts a transform, the
\* match count of the trial transform it was refined from is strictly
\* greater than minnmatch, and self.nmatch is the count match_dets returned
\* for the refined transform, whatever that count is.
C14_TrialCountAboveMinnmatch ==
    (Called("find_affine_transform") /\ Happened("adopt")) =>
        With(MatchCalls, LAMBDA mc :
            /\ Len(mc) >= 2
            /\ mc[Len(mc) - 1].info.nmatched > FatArgs.minnmatch
            /\ mc[Len(mc)].info.transform = obj.affine_transform.value
            /\ mc[Len(mc)].info.nmatched = obj.nmatch
            /\ Len(obj.source_matchdets.value) = obj.nmatch
            /\ Len(obj.template_matchdets.value) = obj.nmatch)

\* a transform was adopted whose trial matched more than minnmatch
\* detections and whose refinement matches minnmatch or fewer
C14_Witness ==
    /\ Called("find_affine_transform")
    /\ Happened("adopt")
    /\ MatchCalls[Len(MatchCalls) - 1].info.nmatched > FatArgs.minnmatch
    /\ obj.nmatch <= FatArgs.minnmatch

\* no template detection is in two of the matched pairs of the call
C15_OneToOne ==
    LET matched == call.result.value.template_matchdets
    IN  \A k, l \in 1..Len(matched) : k # l => matched[k] # matched[l]

\* the transform of the call does not shrink distances: a^2 + b^2 >= 1
C15_NotShrinking ==
    RGe(RAdd(RSq(call.transform.v[1]), RSq(call.transform.v[2])), R(1))

\* C15 as claimed: on catalogues trim_cat returned with its default minsep,
\* and for any similarity transform, no template detection is in more than
\* one of the pairs match_dets returns.
C15_MatchOneToOne ==
    (call.fn = "match_dets" /\ call.trimmed /\ call.result.raised = "none") =>
        C15_OneToOne

\* C15 as amended: the same, for the similarity transforms that do not
\* shrink distances.
C15_MatchOneToOneNotShrinking ==
    (call.fn = "match_dets" /\ call.trimmed /\ call.result.raised = "none"
        /\ C15_NotShrinking) =>
        C15_OneToOne

\* the two source detections of a trimmed catalogue matched, each to a
\* template detection of its own, through a transform that does not shrink
C15_Witness ==
    /\ call.fn = "match_dets"
    /\ call.trimmed
    /\ call.result.raised = "none"
    /\ C15_NotShrinking
    /\ call.result.value.nmatched = 2
    /\ C15_OneToOne

=============================================================================
